---- MODULE Spec2Model ----
(***************************************************************************)
(* A model of @bgunnarsson/date.  The repository holds two implementations *)
(* of the same helper:                                                     *)
(*   - date.ts  (src/tsup.config.ts, lines 17-194): stableKey, getDtf,     *)
(*     getRtf, formatTokens, date.format, date.formatIntl, date.relative,  *)
(*     date._clearCaches;                                                  *)
(*   - index.ts (src/unnamed/part_000): dtf, rtf, formatPreset,            *)
(*     formatRelative, formatTokensLocal, date.format, date.addDays.       *)
(* Strings are TLA+ strings, objects are sequences of (name, value) pairs  *)
(* in insertion order, instants are integers.                              *)
(***************************************************************************)
EXTENDS Integers, Sequences, FiniteSets, TLC

VARIABLES
    kA, kB,         \* the two option objects handed to the key serializers
    kStable,        \* <<getDtf key of kA, getDtf key of kB>>   (date.ts)
    kJson,          \* <<dtf key of kA, dtf key of kB>>         (index.ts)
    kPc,            \* "idle" | "start" | "done"
    tsDtfCache,     \* date.ts _dtfCache: key -> formatter
    tsRtfCache,     \* date.ts _rtfCache: key -> formatter
    idxDtfCache,    \* index.ts _dtfCache: key -> formatter
    idxRtfCache,    \* index.ts _rtfCache: key -> formatter
    made,           \* history: <<cache, key>> -> how many formatters were
                    \* ever constructed for that key of that cache
    built,          \* history: <<cache, key>> -> the constructions since the
                    \* last clear and the formatter the first of them made
    clock,          \* the host's current instant, in seconds
    last,           \* history: the last call, its arguments and its outcome
    trip            \* history: the addDays round trip under way (a call of
                    \* another function ends it)

keyVars == <<kA, kB, kStable, kJson, kPc>>

cacheVars == <<tsDtfCache, tsRtfCache, idxDtfCache, idxRtfCache, made, built>>

vars == <<keyVars, cacheVars, clock, last, trip>>

(***************************************************************************)
(* Strings.                                                                *)
(***************************************************************************)

\* The characters the model uses, in UTF-16 code unit order.
CodeOrder == "\",-0123456789:;=DHMY[\\]abcdefghijklmnopqrstuvwxyz{}"

Chr(s, i) == SubSeq(s, i, i)

Code(c) == CHOOSE i \in 1..Len(CodeOrder) : Chr(CodeOrder, i) = c

\* a < b in the order Array.prototype.sort() uses without a comparator
RECURSIVE StrLess(_, _)
StrLess(a, b) ==
    IF Len(b) = 0 THEN FALSE
    ELSE IF Len(a) = 0 THEN TRUE
    ELSE IF Chr(a, 1) = Chr(b, 1) THEN StrLess(Tail(a), Tail(b))
    ELSE Code(Chr(a, 1)) < Code(Chr(b, 1))

\* s.includes(c) for a one-character c
HasChar(s, c) == \E i \in 1..Len(s) : Chr(s, i) = c

(***************************************************************************)
(* Values and objects.  A value is undefined, null, a string, a number, a  *)
(* boolean or a composite (a nested object); an object is its own          *)
(* properties in insertion order.                                          *)
(***************************************************************************)

Undef    == [t |-> "u"]
Null     == [t |-> "n"]
VStr(s)  == [t |-> "s", s |-> s]
VNum(n)  == [t |-> "d", d |-> n]
VBool(b) == [t |-> "b", b |-> b]
VObj(o)  == [t |-> "o", o |-> o]

Prop(k, v) == [k |-> k, v |-> v]

Keys(obj) == [i \in 1..Len(obj) |-> obj[i].k]

HasKey(obj, k) == \E i \in 1..Len(obj) : obj[i].k = k

\* obj[k]: undefined when obj has no property k
Get(obj, k) ==
    IF HasKey(obj, k)
    THEN obj[CHOOSE i \in 1..Len(obj) : obj[i].k = k].v
    ELSE Undef

\* obj with obj[k] = v: an existing property keeps its place, a new one is
\* appended
SetProp(obj, k, v) ==
    IF HasKey(obj, k)
    THEN [i \in 1..Len(obj) |-> IF obj[i].k = k THEN Prop(k, v) ELSE obj[i]]
    ELSE Append(obj, Prop(k, v))

\* { ...base, ...extra }
RECURSIVE Spread(_, _)
Spread(base, extra) ==
    IF extra = <<>> THEN base
    ELSE Spread(SetProp(base, extra[1].k, extra[1].v), Tail(extra))

\* const { a: _, b: _, ...rest } = obj
Omit(obj, ks) == SelectSeq(obj, LAMBDA p : p.k \notin ks)

\* a ?? b
Coalesce(a, b) == IF a = Undef \/ a = Null THEN b ELSE a

\* whether a value is truthy (objects always are)
Truthy(v) ==
    CASE v.t = "u" -> FALSE
      [] v.t = "n" -> FALSE
      [] v.t = "s" -> v.s # ""
      [] v.t = "d" -> v.d # 0
      [] v.t = "b" -> v.b
      [] OTHER     -> TRUE

(***************************************************************************)
(* JSON.stringify                                                          *)
(***************************************************************************)

\* the quoted form of a string: " and \ are escaped
RECURSIVE JsonEscape(_)
JsonEscape(s) ==
    IF Len(s) = 0 THEN ""
    ELSE (IF Chr(s, 1) = "\"" \/ Chr(s, 1) = "\\"
          THEN "\\" \o Chr(s, 1) ELSE Chr(s, 1)) \o JsonEscape(Tail(s))

JsonQuote(s) == "\"" \o JsonEscape(s) \o "\""

\* JSON.stringify of a value that is not a composite
JsonScalar(v) ==
    CASE v.t = "n" -> "null"
      [] v.t = "s" -> JsonQuote(v.s)
      [] v.t = "d" -> ToString(v.d)
      [] v.t = "b" -> IF v.b THEN "true" ELSE "false"

\* JSON.stringify of an object: own properties in insertion order, the
\* properties whose value is undefined left out
RECURSIVE JsonProps(_, _)
RECURSIVE JsonObject(_)
JsonValue(v) == IF v.t = "o" THEN JsonObject(v.o) ELSE JsonScalar(v)

JsonProps(obj, first) ==
    IF obj = <<>> THEN ""
    ELSE IF obj[1].v = Undef THEN JsonProps(Tail(obj), first)
    ELSE (IF first THEN "" ELSE ",")
         \o JsonQuote(obj[1].k) \o ":" \o JsonValue(obj[1].v)
         \o JsonProps(Tail(obj), FALSE)

JsonObject(obj) == "{" \o JsonProps(obj, TRUE) \o "}"

\* JSON.stringify of an array: undefined elements become null
JsonElem(v) == IF v = Undef THEN "null" ELSE JsonValue(v)

RECURSIVE JsonElems(_, _)
JsonElems(arr, first) ==
    IF arr = <<>> THEN ""
    ELSE (IF first THEN "" ELSE ",") \o JsonElem(arr[1])
         \o JsonElems(Tail(arr), FALSE)

JsonArray(arr) == "[" \o JsonElems(arr, TRUE) \o "]"

(***************************************************************************)
(* date.ts: stableKey                                                      *)
(***************************************************************************)

\* Object.keys(obj).sort()
RECURSIVE SortedKeys(_)
SortedKeys(ks) ==
    IF ks = {} THEN <<>>
    ELSE LET m == CHOOSE a \in ks : \A b \in ks : a = b \/ StrLess(a, b)
         IN  <<m>> \o SortedKeys(ks \ {m})

KeyOrder(obj) == SortedKeys({obj[i].k : i \in 1..Len(obj)})

\* TagValue without the tag that tells a number from a string
UntaggedValue(v) ==
    CASE v.t = "u" -> "u"
      [] v.t = "n" -> "n"
      [] v.t = "s" -> "s:" \o v.s
      [] v.t = "d" -> "s:" \o ToString(v.d)
      [] v.t = "b" -> "b:" \o (IF v.b THEN "1" ELSE "0")
      [] OTHER     -> "o:" \o JsonValue(v)

\* the type-tagged encoding of one value
TagValue(v) ==
    CASE v.t = "u" -> "u"
      [] v.t = "n" -> "n"
      [] v.t = "s" -> "s:" \o v.s
      [] v.t = "d" -> "d:" \o ToString(v.d)
      [] v.t = "b" -> "b:" \o (IF v.b THEN "1" ELSE "0")
      [] OTHER     -> "o:" \o JsonValue(v)

RECURSIVE StableFields(_, _)
StableFields(obj, ks) ==
    IF ks = <<>> THEN ""
    ELSE ks[1] \o "=" \o TagValue(Get(obj, ks[1])) \o ";"
         \o StableFields(obj, Tail(ks))

stableKey(obj) == StableFields(obj, KeyOrder(obj))

\* getDtf's key: stableKey({ locale, timeZone, ...opts })
getDtfKey(locale, timeZone, opts) ==
    stableKey(Spread(<<Prop("locale", locale), Prop("timeZone", timeZone)>>, opts))

\* getRtf's key: stableKey({ locale, numeric })
getRtfKey(locale, numeric) ==
    stableKey(<<Prop("locale", locale), Prop("numeric", numeric)>>)

(***************************************************************************)
(* index.ts: the cache keys of dtf and rtf                                 *)
(***************************************************************************)

dtfKey(locale, timeZone, opts) ==
    JsonArray(<<Coalesce(locale, Null), Coalesce(timeZone, Null), VObj(opts)>>)

rtfKey(locale, numeric) ==
    JsonArray(<<Coalesce(locale, Null), numeric>>)

\* the default field set of a preset, merged with the caller's options
PresetDefaults(preset) ==
    CASE preset = "date" ->
           <<Prop("year", VStr("numeric")), Prop("month", VStr("short")),
             Prop("day", VStr("2-digit"))>>
      [] preset = "time" ->
           <<Prop("hour", VStr("2-digit")), Prop("minute", VStr("2-digit"))>>
      [] OTHER ->
           <<Prop("year", VStr("numeric")), Prop("month", VStr("short")),
             Prop("day", VStr("2-digit")), Prop("hour", VStr("2-digit")),
             Prop("minute", VStr("2-digit"))>>

PresetOpts(preset, opts) == Spread(PresetDefaults(preset), opts)

\* the key formatPreset's call of dtf uses
presetKey(preset, opts) ==
    dtfKey(Get(opts, "locale"), Get(opts, "timeZone"), PresetOpts(preset, opts))

\* date.formatIntl's call of getDtf
formatIntlKey(opts) ==
    LET locale   == Coalesce(Get(opts, "locale"), Undef)
        timeZone == Coalesce(Get(opts, "timeZone"), Undef)
        dtfOpts  == Omit(opts, {"locale", "timeZone"})
    IN  getDtfKey(Coalesce(locale, VStr("en-US")), timeZone, dtfOpts)

(***************************************************************************)
(* Instants and Date objects.  The model counts time in whole seconds: the *)
(* number n stands for the code's 1000 * n milliseconds.  A Date object    *)
(* holds its time value as a day number and the seconds within that day,   *)
(* or is an Invalid Date.  The calendar operators are those of ECMAScript  *)
(* (Day, TimeWithinDay, DayFromYear, YearFromTime, MonthFromTime,          *)
(* DateFromTime, MakeDay, MakeDate, TimeClip); the host's zone is UTC.     *)
(***************************************************************************)

SecPerDay == 24 * 60 * 60

\* TimeClip's range: 8.64e15 ms on each side of the epoch
MaxDay == 10 ^ 8

InvalidDate == [valid |-> FALSE, day |-> 0, tod |-> 0]

MakeDate(day, tod) == [valid |-> TRUE, day |-> day, tod |-> tod]

TimeClip(d) ==
    IF \/ d.day > MaxDay
       \/ d.day = MaxDay /\ d.tod > 0
       \/ d.day < -MaxDay
    THEN InvalidDate ELSE d

\* new Date(n) for a number n
DateOfNumber(n) == TimeClip(MakeDate(n \div SecPerDay, n % SecPerDay))

\* d.getTime()
getTime(d) == d.day * SecPerDay + d.tod

VNaN == [t |-> "nan"]
VDate(d) == [t |-> "date", date |-> d]

\* Date.parse: the host reads the ISO strings it is given here, and nothing
\* else
ParseDate(s) ==
    CASE s = "1970-01-02T00:00:00.000Z" -> MakeDate(1, 0)
      [] s = "1970-01-01T00:01:30.000Z" -> MakeDate(0, 90)
      [] OTHER -> InvalidDate

toDate(input) ==
    CASE input.t = "date" -> input.date
      [] input.t = "d"    -> DateOfNumber(input.d)
      [] input.t = "s"    -> ParseDate(input.s)
      [] OTHER            -> InvalidDate

\* assertValid(d) throws
Invalid(d) == ~d.valid

\* the truthiness of a DateInput (or of a missing one)
TruthyInput(v) ==
    CASE v.t = "date" -> TRUE
      [] v.t = "nan"  -> FALSE
      [] OTHER        -> Truthy(v)

DayFromYear(y) ==
    365 * (y - 1970) + ((y - 1969) \div 4) - ((y - 1901) \div 100)
        + ((y - 1601) \div 400)

DaysInYear(y) ==
    IF y % 4 # 0 THEN 365
    ELSE IF y % 100 # 0 THEN 366
    ELSE IF y % 400 # 0 THEN 365
    ELSE 366

DaysIn400Years == 400 * 365 + 97

\* the year y with DayFromYear(y) <= day < DayFromYear(y + 1)
YearFromDay(day) ==
    LET est == 1970 + 400 * (day \div DaysIn400Years)
                    + ((day % DaysIn400Years) \div 365)
    IN  CHOOSE y \in (est - 2)..(est + 1) :
            DayFromYear(y) <= day /\ day < DayFromYear(y + 1)

InLeapYear(day) == IF DaysInYear(YearFromDay(day)) = 366 THEN 1 ELSE 0

DayWithinYear(day) == day - DayFromYear(YearFromDay(day))

\* the day within the year on which month m (0..11) starts; 12 ends the year
MonthStart(m, leap) ==
    CASE m = 0 -> 0
      [] m = 1 -> 31
      [] m = 2 -> 59 + leap
      [] m = 3 -> 90 + leap
      [] m = 4 -> 120 + leap
      [] m = 5 -> 151 + leap
      [] m = 6 -> 181 + leap
      [] m = 7 -> 212 + leap
      [] m = 8 -> 243 + leap
      [] m = 9 -> 273 + leap
      [] m = 10 -> 304 + leap
      [] m = 11 -> 334 + leap
      [] OTHER -> 365 + leap

MonthFromDay(day) ==
    CHOOSE m \in 0..11 :
        /\ MonthStart(m, InLeapYear(day)) <= DayWithinYear(day)
        /\ DayWithinYear(day) < MonthStart(m + 1, InLeapYear(day))

DateFromDay(day) ==
    DayWithinYear(day) - MonthStart(MonthFromDay(day), InLeapYear(day)) + 1

\* MakeDay(year, month, date) for a month in 0..11
MakeDay(y, m, dt) ==
    DayFromYear(y) + MonthStart(m, IF DaysInYear(y) = 366 THEN 1 ELSE 0) + dt - 1

\* d.getUTCDate()
getUTCDate(d) == DateFromDay(d.day)

\* d.setUTCDate(dt): the Date object after the call
setUTCDate(d, dt) ==
    IF ~d.valid THEN InvalidDate
    ELSE TimeClip(MakeDate(MakeDay(YearFromDay(d.day), MonthFromDay(d.day), dt),
                           d.tod))

\* the local calendar fields (getFullYear, getMonth() + 1, getDate, getHours,
\* getMinutes, getSeconds)
LocalFields(d) ==
    [Y |-> YearFromDay(d.day),
     M |-> MonthFromDay(d.day) + 1,
     D |-> DateFromDay(d.day),
     H |-> d.tod \div 3600,
     m |-> (d.tod \div 60) % 60,
     s |-> d.tod % 60]

(***************************************************************************)
(* The token formatters.                                                   *)
(***************************************************************************)

pad2(n) == IF n < 10 THEN "0" \o ToString(n) ELSE ToString(n)

\* String(Y).slice(-2)
Last2(s) == IF Len(s) <= 2 THEN s ELSE SubSeq(s, Len(s) - 1, Len(s))

\* formatTokens' map
TokenMap(f, tok) ==
    CASE tok = "YYYY" -> ToString(f.Y)
      [] tok = "YY"   -> Last2(ToString(f.Y))
      [] tok = "MM"   -> pad2(f.M)
      [] tok = "M"    -> ToString(f.M)
      [] tok = "DD"   -> pad2(f.D)
      [] tok = "D"    -> ToString(f.D)
      [] tok = "HH"   -> pad2(f.H)
      [] tok = "H"    -> ToString(f.H)
      [] tok = "mm"   -> pad2(f.m)
      [] tok = "m"    -> ToString(f.m)
      [] tok = "ss"   -> pad2(f.s)
      [] tok = "s"    -> ToString(f.s)
      [] OTHER        -> tok

\* whether tok stands at position i of s
MatchesAt(s, i, tok) ==
    i + Len(tok) - 1 <= Len(s) /\ SubSeq(s, i, i + Len(tok) - 1) = tok

\* the alternative a regular expression a|b|c takes at position i: the first
\* one, in the order written, that matches there ("" when none does)
FirstAlt(s, i, alts) ==
    IF \E j \in 1..Len(alts) : MatchesAt(s, i, alts[j])
    THEN alts[CHOOSE j \in 1..Len(alts) :
                /\ MatchesAt(s, i, alts[j])
                /\ \A h \in 1..(j - 1) : ~MatchesAt(s, i, alts[h])]
    ELSE ""

\* s.replace(/a|b|c/g, tok => map[tok]) from position i on: one scan, left to
\* right, resumed after each match
RECURSIVE ReplaceFrom(_, _, _, _)
ReplaceFrom(s, i, alts, f) ==
    IF i > Len(s) THEN ""
    ELSE LET tok == FirstAlt(s, i, alts)
         IN  IF tok = ""
             THEN Chr(s, i) \o ReplaceFrom(s, i + 1, alts, f)
             ELSE TokenMap(f, tok) \o ReplaceFrom(s, i + Len(tok), alts, f)

ReplaceAll(s, alts, f) == ReplaceFrom(s, 1, alts, f)

\* the same alternatives with the short tokens written first
ShortFirstAlts ==
    <<"M", "D", "H", "m", "s", "YY", "MM", "DD", "HH", "mm", "ss", "YYYY">>

\* date.ts: /YYYY|YY|MM|DD|HH|mm|ss|M|D|H|m|s/g
TokenAlts ==
    <<"YYYY", "YY", "MM", "DD", "HH", "mm", "ss", "M", "D", "H", "m", "s">>

\* date.ts formatTokens(d, pattern)
formatTokens(d, pattern) == ReplaceAll(pattern, TokenAlts, LocalFields(d))

\* index.ts formatTokensLocal(d, pattern): six replace calls, one after the
\* other, each over the output of the one before
formatTokensLocal(d, pattern) ==
    LET f  == LocalFields(d)
        r1 == ReplaceAll(pattern, <<"YYYY">>, f)
        r2 == ReplaceAll(r1, <<"MM">>, f)
        r3 == ReplaceAll(r2, <<"DD">>, f)
        r4 == ReplaceAll(r3, <<"HH">>, f)
        r5 == ReplaceAll(r4, <<"mm">>, f)
    IN  ReplaceAll(r5, <<"ss">>, f)

\* index.ts TOKEN_RE.test(s), TOKEN_RE = /Y{4}|M{2}|D{2}|H{2}|m{2}|s{2}/
TokenReAlts == <<"YYYY", "MM", "DD", "HH", "mm", "ss">>

TOKEN_RE(s) == \E i \in 1..Len(s) : FirstAlt(s, i, TokenReAlts) # ""

(***************************************************************************)
(* The formatter caches.  A formatter is what its constructor was given,   *)
(* plus an identity; what it prints is a function of that and of the       *)
(* value it is handed.                                                     *)
(***************************************************************************)

EmptyCache == [k \in {} |-> 0]

NoFormatter == [id |-> 0, locale |-> Undef, opts |-> <<>>]

\* new Intl.DateTimeFormat(locale, o), new Intl.RelativeTimeFormat(locale, o)
Formatter(id, locale, o) == [id |-> id, locale |-> locale, opts |-> o]

\* how many formatters were constructed so far for a key of a cache
Made(n, cacheName, key) ==
    IF <<cacheName, key>> \in DOMAIN n THEN n[<<cacheName, key>>] ELSE 0

\* the identity of the formatter a construction for that key makes now: the
\* number of that construction
NewId(n, cacheName, key) == Made(n, cacheName, key) + 1

\* what a lookup found or made: the key, the formatter returned, whether it
\* was constructed by this call, and the cache after the call
Hit(cache, key) ==
    [key |-> key, inst |-> cache[key], fresh |-> FALSE, map |-> cache]

Miss(cache, key, fmt) ==
    [key |-> key, inst |-> fmt, fresh |-> TRUE, map |-> (key :> fmt) @@ cache]

\* a lookup that constructs and stores a formatter whatever the cache holds
Rebuild(cache, key, fmt) ==
    [key |-> key, inst |-> fmt, fresh |-> TRUE,
     map |-> [k \in DOMAIN cache \cup {key} |-> IF k = key THEN fmt ELSE cache[k]]]

\* date.ts getDtf(locale, timeZone, opts); n counts the constructions so far
getDtf(cache, n, locale, timeZone, opts) ==
    LET key == getDtfKey(locale, timeZone, opts)
        o   == IF Truthy(timeZone) THEN SetProp(opts, "timeZone", timeZone)
               ELSE opts
    IN  IF key \in DOMAIN cache THEN Hit(cache, key)
        ELSE Miss(cache, key, Formatter(NewId(n, "tsDtf", key), locale, o))

\* date.ts getRtf(locale, numeric)
getRtf(cache, n, locale, numeric) ==
    LET key == getRtfKey(locale, numeric)
    IN  IF key \in DOMAIN cache THEN Hit(cache, key)
        ELSE Miss(cache, key, Formatter(NewId(n, "tsRtf", key), locale,
                                        <<Prop("numeric", numeric)>>))

\* dtf with the check for a hit left out
dtfAlwaysBuilds(cache, n, locale, timeZone, opts) ==
    LET key == dtfKey(locale, timeZone, opts)
    IN  Rebuild(cache, key,
                Formatter(NewId(n, "idxDtf", key), locale,
                          SetProp(opts, "timeZone", timeZone)))

\* index.ts dtf(locale, timeZone, opts)
dtf(cache, n, locale, timeZone, opts) ==
    LET key == dtfKey(locale, timeZone, opts)
    IN  IF key \in DOMAIN cache THEN Hit(cache, key)
        ELSE Miss(cache, key,
                  Formatter(NewId(n, "idxDtf", key), locale,
                            SetProp(opts, "timeZone", timeZone)))

\* index.ts rtf(locale, numeric)
rtf(cache, n, locale, numeric) ==
    LET key == rtfKey(locale, numeric)
    IN  IF key \in DOMAIN cache THEN Hit(cache, key)
        ELSE Miss(cache, key, Formatter(NewId(n, "idxRtf", key), locale,
                                        <<Prop("numeric", numeric)>>))

\* fmt.format(d) of an Intl.DateTimeFormat
DtfFormat(fmt, d) ==
    [kind |-> "dtf", locale |-> fmt.locale, opts |-> fmt.opts, d |-> d]

\* fmt.format(value, unit) of an Intl.RelativeTimeFormat
RtfFormat(fmt, value, unit) ==
    [kind |-> "rtf", locale |-> fmt.locale, opts |-> fmt.opts,
     value |-> value, unit |-> unit]

Text(s) == [kind |-> "text", text |-> s]

(***************************************************************************)
(* Relative time.                                                          *)
(***************************************************************************)

\* a rounding to the nearest integer whose ties go away from zero
MathRoundTiesFromZero(n, d) ==
    IF n >= 0 THEN (2 * n + d) \div (2 * d) ELSE -((2 * (-n) + d) \div (2 * d))

\* Math.round(n / d), d > 0: floor(n / d + 1/2), the nearest integer, a tie
\* going toward +Infinity
MathRound(n, d) == (2 * n + d) \div (2 * d)

\* Math.floor(n / d) and Math.ceil(n / d), d > 0
MathFloor(n, d) == n \div d

MathCeil(n, d) == -((-n) \div d)

\* date.ts relative: sec .. year (sec is 1000 ms)
tsSec == 1
tsMin == 60 * tsSec
tsHour == 60 * tsMin
tsDay == 24 * tsHour
tsWeek == 7 * tsDay
tsMonth == 30 * tsDay
tsYear == 365 * tsDay

\* the if-chain of date.ts relative with > where the code has >=
tsUnitStrict(absMs) ==
    IF absMs > tsYear THEN [unit |-> "year", size |-> tsYear]
    ELSE IF absMs > tsMonth THEN [unit |-> "month", size |-> tsMonth]
    ELSE IF absMs > tsWeek THEN [unit |-> "week", size |-> tsWeek]
    ELSE IF absMs > tsDay THEN [unit |-> "day", size |-> tsDay]
    ELSE IF absMs > tsHour THEN [unit |-> "hour", size |-> tsHour]
    ELSE IF absMs > tsMin THEN [unit |-> "minute", size |-> tsMin]
    ELSE [unit |-> "second", size |-> tsSec]

\* the if-chain of date.ts relative: the unit and what value is divided by
tsUnit(absMs) ==
    IF absMs >= tsYear THEN [unit |-> "year", size |-> tsYear]
    ELSE IF absMs >= tsMonth THEN [unit |-> "month", size |-> tsMonth]
    ELSE IF absMs >= tsWeek THEN [unit |-> "week", size |-> tsWeek]
    ELSE IF absMs >= tsDay THEN [unit |-> "day", size |-> tsDay]
    ELSE IF absMs >= tsHour THEN [unit |-> "hour", size |-> tsHour]
    ELSE IF absMs >= tsMin THEN [unit |-> "minute", size |-> tsMin]
    ELSE [unit |-> "second", size |-> tsSec]

\* value < 0 ? Math.ceil(value) : Math.floor(value), value = diffMs / size
tsRounded(diffMs, size) ==
    IF diffMs < 0 THEN MathCeil(diffMs, size) ELSE MathFloor(diffMs, size)

\* index.ts formatRelative: minute .. week (minute is 60_000 ms)
idxMinute == 60 * tsSec
idxHour == 60 * idxMinute
idxDay == 24 * idxHour
idxWeek == 7 * idxDay

\* the returns of index.ts formatRelative
idxUnit(abs) ==
    IF abs < idxHour THEN [unit |-> "minute", size |-> idxMinute]
    ELSE IF abs < idxDay THEN [unit |-> "hour", size |-> idxHour]
    ELSE IF abs < idxWeek THEN [unit |-> "day", size |-> idxDay]
    ELSE [unit |-> "week", size |-> idxWeek]

Abs(n) == IF n < 0 THEN -n ELSE n

(***************************************************************************)
(* The handlers.  Each yields what the call did: whether it threw, the     *)
(* cache it used and that cache afterwards, the formatter, the result.     *)
(***************************************************************************)

NoResult ==
    [raised |-> FALSE, cache |-> "none", key |-> "", inst |-> NoFormatter,
     fresh |-> FALSE, map |-> EmptyCache, out |-> [kind |-> "none"],
     route |-> "", usedNow |-> InvalidDate, diff |-> 0, unit |-> "",
     value |-> 0]

Raised == [NoResult EXCEPT !.raised = TRUE]

\* a result that went through a cache
Looked(cacheName, look, out, route) ==
    [NoResult EXCEPT !.cache = cacheName, !.key = look.key,
                     !.inst = look.inst, !.fresh = look.fresh,
                     !.map = look.map, !.out = out, !.route = route]

\* date.ts date.format(input, pattern)
tsFormat(input, pattern) ==
    LET d == toDate(input)
    IN  IF Invalid(d) THEN Raised
        ELSE [NoResult EXCEPT !.out = Text(formatTokens(d, pattern)),
                              !.route = "tokens"]

\* date.ts date.formatIntl(input, opts)
tsFormatIntl(cache, n, input, opts) ==
    LET d        == toDate(input)
        locale   == Coalesce(Get(opts, "locale"), Undef)
        timeZone == Coalesce(Get(opts, "timeZone"), Undef)
        dtfOpts  == Omit(opts, {"locale", "timeZone"})
        look     == getDtf(cache, n, Coalesce(locale, VStr("en-US")),
                           timeZone, dtfOpts)
    IN  IF Invalid(d) THEN Raised
        ELSE Looked("tsDtf", look, DtfFormat(look.inst, d), "intl")

\* date.ts date.relative(input, opts), at the instant `now` of the host clock
tsRelative(cache, n, now, input, opts) ==
    LET nowD    == IF TruthyInput(Get(opts, "now"))
                   THEN toDate(Get(opts, "now")) ELSE DateOfNumber(now)
        d       == toDate(input)
        locale  == Coalesce(Get(opts, "locale"), VStr("en-US"))
        numeric == Coalesce(Get(opts, "numeric"), VStr("auto"))
        look    == getRtf(cache, n, locale, numeric)
        diffMs  == getTime(d) - getTime(nowD)
        u       == tsUnit(Abs(diffMs))
        rounded == tsRounded(diffMs, u.size)
    IN  IF Invalid(nowD) \/ Invalid(d) THEN Raised
        ELSE [Looked("tsRtf", look, RtfFormat(look.inst, rounded, u.unit),
                     "relative")
                EXCEPT !.usedNow = nowD, !.diff = diffMs, !.unit = u.unit,
                       !.value = rounded]

\* index.ts formatPreset(d, preset, opts)
formatPreset(cache, n, d, preset, opts) ==
    LET look == dtf(cache, n, Get(opts, "locale"), Get(opts, "timeZone"),
                    PresetOpts(preset, opts))
    IN  Looked("idxDtf", look, DtfFormat(look.inst, d), preset)

\* index.ts formatRelative(d, opts), at the instant `now` of the host clock
formatRelative(cache, n, now, d, opts) ==
    LET diffMs == getTime(d) - now
        u      == idxUnit(Abs(diffMs))
        look   == rtf(cache, n, Get(opts, "locale"),
                      Coalesce(Get(opts, "numeric"), VStr("auto")))
        value  == MathRound(diffMs, u.size)
    IN  [Looked("idxRtf", look, RtfFormat(look.inst, value, u.unit), "relative")
           EXCEPT !.usedNow = DateOfNumber(now), !.diff = diffMs,
                  !.unit = u.unit, !.value = value]

\* the preset date.format falls back to, were it another one
FallbackDatetime == "datetime"

\* the preset index.ts date.format falls back to
FallbackPreset == "date"

\* index.ts date.format(input, presetOrPattern, opts); dtfCache and rtfCache
\* are the two caches of index.ts
idxFormat(dtfCache, rtfCache, n, now, input, presetOrPattern, opts) ==
    LET d == toDate(input)
    IN  IF Invalid(d) THEN Raised
        ELSE IF presetOrPattern = "relative"
             THEN formatRelative(rtfCache, n, now, d, opts)
        ELSE IF presetOrPattern \in {"date", "time", "datetime"}
             THEN formatPreset(dtfCache, n, d, presetOrPattern, opts)
        ELSE IF TOKEN_RE(presetOrPattern)
             THEN [NoResult EXCEPT
                     !.out = Text(formatTokensLocal(d, presetOrPattern)),
                     !.route = "tokens"]
        ELSE [formatPreset(dtfCache, n, d, FallbackPreset, opts)
                EXCEPT !.route = "fallback"]

\* addDays that moves the Date it was given
addDaysInPlace(input, days) ==
    LET d == toDate(input)
    IN  IF Invalid(d) THEN [raised |-> TRUE, arg |-> d, out |-> InvalidDate]
        ELSE LET moved == setUTCDate(d, getUTCDate(d) + days)
             IN  [raised |-> FALSE, arg |-> moved, out |-> moved]

\* index.ts date.addDays(input, days): whether it threw, the Date object the
\* input denotes after the call, and the Date returned
addDays(input, days) ==
    LET d == toDate(input)
    IN  IF Invalid(d) THEN [raised |-> TRUE, arg |-> d, out |-> InvalidDate]
        ELSE LET out == MakeDate(d.day, d.tod)
             IN  [raised |-> FALSE, arg |-> d,
                  out |-> setUTCDate(out, getUTCDate(out) + days)]

(***************************************************************************)
(* The state machine.  Init is the state after the two modules are loaded: *)
(* four empty caches.  Every action is one call of an exported function.   *)
(***************************************************************************)

MaxBuilds == 2

NoCall ==
    [op |-> "none", input |-> Undef, mode |-> "", opts |-> <<>>, days |-> 0,
     raised |-> FALSE, cache |-> "none", key |-> "", inst |-> 0,
     fresh |-> FALSE, out |-> [kind |-> "none"], route |-> "",
     usedNow |-> InvalidDate, diff |-> 0, unit |-> "", value |-> 0,
     clock |-> 0]

NoTrip ==
    [stage |-> "none", d0 |-> InvalidDate, n |-> 0, arg |-> InvalidDate,
     mid |-> InvalidDate, back |-> InvalidDate, raisedOut |-> FALSE,
     raisedBack |-> FALSE]

KeyIdle ==
    /\ kA = <<>>
    /\ kB = <<>>
    /\ kStable = <<"", "">>
    /\ kJson = <<"", "">>
    /\ kPc = "idle"

Loaded ==
    /\ tsDtfCache = EmptyCache
    /\ tsRtfCache = EmptyCache
    /\ idxDtfCache = EmptyCache
    /\ idxRtfCache = EmptyCache
    /\ made = EmptyCache
    /\ built = EmptyCache
    /\ last = NoCall
    /\ trip = NoTrip

\* the call (op, input, mode, opts, days) did r
Apply(op, input, mode, opts, days, r) ==
    /\ r.fresh => Made(made, r.cache, r.key) < MaxBuilds
    /\ tsDtfCache' = IF r.cache = "tsDtf" THEN r.map ELSE tsDtfCache
    /\ tsRtfCache' = IF r.cache = "tsRtf" THEN r.map ELSE tsRtfCache
    /\ idxDtfCache' = IF r.cache = "idxDtf" THEN r.map ELSE idxDtfCache
    /\ idxRtfCache' = IF r.cache = "idxRtf" THEN r.map ELSE idxRtfCache
    /\ made' = IF r.fresh
               THEN [k \in DOMAIN made \cup {<<r.cache, r.key>>} |->
                       IF k = <<r.cache, r.key>>
                       THEN Made(made, r.cache, r.key) + 1 ELSE made[k]]
               ELSE made
    /\ built' =
         LET k == <<r.cache, r.key>>
         IN  IF ~r.fresh THEN built
             ELSE IF k \in DOMAIN built
                  THEN [built EXCEPT ![k].n = @ + 1]
                  ELSE (k :> [n |-> 1, first |-> r.inst.id]) @@ built
    /\ last' =
         [op |-> op, input |-> input, mode |-> mode, opts |-> opts,
          days |-> days, raised |-> r.raised, cache |-> r.cache,
          key |-> r.key, inst |-> r.inst.id, fresh |-> r.fresh,
          out |-> r.out, route |-> r.route, usedNow |-> r.usedNow,
          diff |-> r.diff, unit |-> r.unit, value |-> r.value,
          clock |-> clock]
    /\ UNCHANGED <<keyVars, clock>>

\* date.format(input, pattern) of date.ts
TsFormat(inputs, patterns) ==
    \E input \in inputs, pattern \in patterns :
        /\ Apply("tsFormat", input, pattern, <<>>, 0, tsFormat(input, pattern))
        /\ trip' = NoTrip

\* date.formatIntl(input, opts) of date.ts
TsFormatIntl(inputs, optss) ==
    \E input \in inputs, opts \in optss :
        /\ Apply("tsFormatIntl", input, "", opts, 0,
                 tsFormatIntl(tsDtfCache, made, input, opts))
        /\ trip' = NoTrip

\* date.relative(input, opts) of date.ts
TsRelative(inputs, optss) ==
    \E input \in inputs, opts \in optss :
        /\ Apply("tsRelative", input, "", opts, 0,
                 tsRelative(tsRtfCache, made, clock, input, opts))
        /\ trip' = NoTrip

\* date._clearCaches() of date.ts
TsClearCaches ==
    /\ tsDtfCache' = EmptyCache
    /\ tsRtfCache' = EmptyCache
    /\ built' = [k \in {b \in DOMAIN built : b[1] \notin {"tsDtf", "tsRtf"}}
                   |-> built[k]]
    /\ last' = [NoCall EXCEPT !.op = "clear", !.clock = clock]
    /\ trip' = NoTrip
    /\ UNCHANGED <<keyVars, idxDtfCache, idxRtfCache, made, clock>>

\* date.format(input, presetOrPattern, opts) of index.ts
IdxFormat(inputs, modes, optss) ==
    \E input \in inputs, mode \in modes, opts \in optss :
        /\ Apply("idxFormat", input, mode, opts, 0,
                 idxFormat(idxDtfCache, idxRtfCache, made, clock, input,
                           mode, opts))
        /\ trip' = NoTrip

\* date.addDays(input, days) of index.ts
IdxAddDays(inputs, dayss) ==
    \E input \in inputs, days \in dayss :
        LET r == addDays(input, days)
        IN  /\ Apply("addDays", input, "", <<>>, days,
                     [NoResult EXCEPT !.raised = r.raised,
                                      !.out = [kind |-> "date", date |-> r.out]])
            /\ trip' = [NoTrip EXCEPT !.stage = "out", !.d0 = toDate(input),
                                      !.n = days, !.arg = r.arg, !.mid = r.out,
                                      !.raisedOut = r.raised]

\* date.addDays(mid, -n) of index.ts, mid being what addDays(d0, n) returned
IdxAddDaysBack ==
    /\ trip.stage = "out"
    /\ ~trip.raisedOut
    /\ LET r == addDays(VDate(trip.mid), -trip.n)
       IN  /\ Apply("addDays", VDate(trip.mid), "", <<>>, -trip.n,
                    [NoResult EXCEPT !.raised = r.raised,
                                     !.out = [kind |-> "date", date |-> r.out]])
           /\ trip' = [trip EXCEPT !.stage = "back", !.back = r.out,
                                   !.raisedBack = r.raised]

\* the host clock moves on
Tick(clocks) ==
    /\ \E c \in clocks : c > clock /\ clock' = c
    /\ UNCHANGED <<keyVars, cacheVars, last, trip>>

(***************************************************************************)
(* The key serializers applied to two option objects.                      *)
(***************************************************************************)

MaxFields == 2

OptNames == {"era", "hour"}

Nested1 == <<Prop("x", VNum(1)), Prop("y", VNum(2))>>
Nested2 == <<Prop("y", VNum(2)), Prop("x", VNum(1))>>

OptVals ==
    { Undef, Null, VStr("2"), VStr("2;hour=s:2"), VNum(2), VBool(TRUE),
      VObj(Nested1), VObj(Nested2) }

\* every object of at most MaxFields properties, in every insertion order
RECURSIVE ObjsOfLen(_)
ObjsOfLen(n) ==
    IF n = 0 THEN {<<>>}
    ELSE { Append(o, Prop(k, v)) :
             o \in ObjsOfLen(n - 1), k \in OptNames, v \in OptVals }

Objs ==
    { o \in UNION { ObjsOfLen(n) : n \in 0..MaxFields } :
        \A i, j \in 1..Len(o) : i # j => o[i].k # o[j].k }

KeyInit ==
    /\ kA \in Objs
    /\ kB \in Objs
    /\ kStable = <<"", "">>
    /\ kJson = <<"", "">>
    /\ kPc = "start"
    /\ Loaded
    /\ clock = 0

\* formatIntl(d, kA), formatIntl(d, kB) (date.ts) and
\* format(d, 'date', kA), format(d, 'date', kB) (index.ts) derive their keys
SerializeKeys ==
    /\ kPc = "start"
    /\ kStable' = <<formatIntlKey(kA), formatIntlKey(kB)>>
    /\ kJson' = <<presetKey("date", kA), presetKey("date", kB)>>
    /\ kPc' = "done"
    /\ UNCHANGED <<kA, kB, cacheVars, clock, last, trip>>

KeyNext == SerializeKeys

SpecKey == KeyInit /\ [][KeyNext]_vars

(***************************************************************************)
(* What the serializers are handed, and its content.                       *)
(***************************************************************************)

\* the object date.formatIntl's getDtf hands to stableKey
StableInput(opts) ==
    Spread(<<Prop("locale", Coalesce(Coalesce(Get(opts, "locale"), Undef), VStr("en-US"))),
             Prop("timeZone", Coalesce(Get(opts, "timeZone"), Undef))>>,
           Omit(opts, {"locale", "timeZone"}))

\* the options object formatPreset hands to dtf
JsonInput(opts) == PresetOpts("date", opts)

\* the (name, value) pairs of an object, whatever their order, at every depth
RECURSIVE Content(_)
Content(obj) ==
    { [k |-> obj[i].k,
       v |-> IF obj[i].v.t = "o"
             THEN [t |-> "o", c |-> Content(obj[i].v.o)]
             ELSE obj[i].v] : i \in 1..Len(obj) }

\* no name and no string value holds one of stableKey's delimiters, and no
\* composite value holds an undefined member
RECURSIVE NoUndefined(_)
NoUndefined(obj) ==
    \A i \in 1..Len(obj) :
        /\ obj[i].v # Undef
        /\ obj[i].v.t = "o" => NoUndefined(obj[i].v.o)

RECURSIVE DelimiterFree(_)
DelimiterFree(obj) ==
    \A i \in 1..Len(obj) :
        /\ ~HasChar(obj[i].k, ";") /\ ~HasChar(obj[i].k, "=")
        /\ obj[i].v.t = "s" =>
              ~HasChar(obj[i].v.s, ";") /\ ~HasChar(obj[i].v.s, "=")
        /\ obj[i].v.t = "o" =>
              DelimiterFree(obj[i].v.o) /\ NoUndefined(obj[i].v.o)

\* C2: two option mappings with the same (name, value) pairs, in whatever
\* field order (nested composites included), get the identical cache key,
\* in date.ts (stableKey) and in index.ts (JSON.stringify).
C2_KeyOrderIndependent ==
    kPc = "done" =>
        /\ Content(StableInput(kA)) = Content(StableInput(kB))
              => kStable[1] = kStable[2]
        /\ Content(JsonInput(kA)) = Content(JsonInput(kB))
              => kJson[1] = kJson[2]

\* C3 as stated: two option mappings that differ in at least one
\* (name, value) pair never get the same cache key.
C3_KeyCollisionFree ==
    kPc = "done" =>
        /\ Content(StableInput(kA)) # Content(StableInput(kB))
              => kStable[1] # kStable[2]
        /\ Content(JsonInput(kA)) # Content(JsonInput(kB))
              => kJson[1] # kJson[2]

\* C3 amended: stableKey keeps two different mappings apart when no name or
\* string value holds ';' or '=' and no composite holds an undefined member;
\* the JSON key of index.ts keeps them apart when no field is undefined.
C3_KeyCollisionFreeAmended ==
    kPc = "done" =>
        /\ ( /\ DelimiterFree(StableInput(kA))
             /\ DelimiterFree(StableInput(kB))
             /\ Content(StableInput(kA)) # Content(StableInput(kB)) )
              => kStable[1] # kStable[2]
        /\ ( /\ NoUndefined(JsonInput(kA))
             /\ NoUndefined(JsonInput(kB))
             /\ Content(JsonInput(kA)) # Content(JsonInput(kB)) )
              => kJson[1] # kJson[2]

\* C3 witness: number 2 and string "2" under the same name got two keys
C3_Witness ==
    /\ kPc = "done"
    /\ kA = <<Prop("era", VNum(2))>>
    /\ kB = <<Prop("era", VStr("2"))>>
    /\ kStable[1] # kStable[2]
    /\ kJson[1] # kJson[2]


(***************************************************************************)
(* The token formatters applied to patterns.                               *)
(***************************************************************************)

MaxPatternLen == 4

PatternChars == {"Y", "M", "D", "m", "-"}

RECURSIVE PatternsOfLen(_)
PatternsOfLen(n) ==
    IF n = 0 THEN {""}
    ELSE { p \o c : p \in PatternsOfLen(n - 1), c \in PatternChars }

Patterns ==
    UNION { PatternsOfLen(n) : n \in 1..MaxPatternLen }
        \cup {"YYYY-MM-DD", "YYYYMM", "DD.MM.YYYY HH:mm:ss", "H:m:s YY", "YYYYMMM"}

\* 2025-12-27 21:05:09 and 2024-03-05 04:05:06, local time
Dec27 == MakeDate(20449, 75909)

Mar05 == MakeDate(19787, 14706)

TokInputs == {VDate(Dec27), VDate(Mar05)}

TokInit == KeyIdle /\ Loaded /\ clock = 0

\* one call from the loaded state: what a token formatter returns depends on
\* its arguments alone
TokNext ==
    \/ last.op = "none" /\ TsFormat(TokInputs, Patterns)
    \/ last.op = "none" /\ IdxFormat(TokInputs, Patterns, {<<>>})

SpecTok == TokInit /\ [][TokNext]_vars

\* the tokens each formatter recognizes
TsTokens ==
    {"YYYY", "YY", "MM", "M", "DD", "D", "HH", "H", "mm", "m", "ss", "s"}

IdxTokens == {"YYYY", "MM", "DD", "HH", "mm", "ss"}

\* the longest token of toks that stands at position i of s ("" when none)
LongestAt(s, i, toks) ==
    LET c == {t \in toks : MatchesAt(s, i, t)}
    IN  IF c = {} THEN "" ELSE CHOOSE t \in c : \A u \in c : Len(u) <= Len(t)

TwoDigits(n) == ToString(n \div 10) \o ToString(n % 10)

\* the field a token stands for: a doubled letter is zero-padded to two
\* digits, a single one is not, YYYY is the whole year, YY its last two digits
FieldText(f, tok) ==
    LET n == CASE Chr(tok, 1) = "Y" -> f.Y
               [] Chr(tok, 1) = "M" -> f.M
               [] Chr(tok, 1) = "D" -> f.D
               [] Chr(tok, 1) = "H" -> f.H
               [] Chr(tok, 1) = "m" -> f.m
               [] OTHER -> f.s
    IN  IF tok = "YYYY" THEN ToString(n)
        ELSE IF tok = "YY" THEN TwoDigits(n % 100)
        ELSE IF Len(tok) = 2 THEN TwoDigits(n)
        ELSE ToString(n)

\* one pass over s from position i: the longest token at each position gives
\* way to its field, every other character is copied
RECURSIVE OnePass(_, _, _, _)
OnePass(s, i, toks, f) ==
    IF i > Len(s) THEN ""
    ELSE LET tok == LongestAt(s, i, toks)
         IN  IF tok = "" THEN Chr(s, i) \o OnePass(s, i + 1, toks, f)
             ELSE FieldText(f, tok) \o OnePass(s, i + Len(tok), toks, f)

\* C4: both token formatters give what one left-to-right, longest-match-first
\* pass over the pattern gives, each for the tokens it recognizes, and
\* "YYYY-MM-DD" for local 2025-12-27 gives "2025-12-27".
C4_TokenLongestMatch ==
    /\ (last.op = "tsFormat" /\ ~last.raised) =>
          last.out = Text(OnePass(last.mode, 1, TsTokens,
                                  LocalFields(toDate(last.input))))
    /\ (last.op = "idxFormat" /\ last.route = "tokens") =>
          last.out = Text(OnePass(last.mode, 1, IdxTokens,
                                  LocalFields(toDate(last.input))))
    /\ ( /\ last.op \in {"tsFormat", "idxFormat"}
         /\ last.mode = "YYYY-MM-DD"
         /\ last.input = VDate(Dec27) ) =>
          last.out = Text("2025-12-27")

\* C4 witness: adjacent tokens, YYYY then MM then a lone M, were formatted
C4_Witness ==
    /\ last.op = "tsFormat"
    /\ last.mode = "YYYYMMM"
    /\ last.input = VDate(Mar05)
    /\ last.out = Text("2024033")


(***************************************************************************)
(* addDays there and back.                                                 *)
(***************************************************************************)

\* the instants addDays is tried on: around the epoch, the ends of February
\* in a common and in a leap year, and both ends of the range of a Date
DayInputs ==
    { VDate(MakeDate(dn, tod)) :
        dn \in {-MaxDay, -MaxDay + 1, -1, 0, 58, 789, 20449, MaxDay - 1},
        tod \in {0, SecPerDay - 1} }
      \cup {VDate(MakeDate(MaxDay, 0)), VDate(InvalidDate), VNum(90), VNaN}

DayCounts == {-366, -31, -1, 0, 1, 2, 29, 366}

DaysInit == KeyIdle /\ Loaded /\ clock = 0

DaysNext ==
    \/ trip.stage = "none" /\ IdxAddDays(DayInputs, DayCounts)
    \/ IdxAddDaysBack

SpecDays == DaysInit /\ [][DaysNext]_vars

\* d moved by n whole days, as an instant that may lie outside a Date's range
Moved(d, n) == MakeDate(d.day + n, d.tod)

InRange(d) == TimeClip(d) = d

\* C9 as stated: for every valid d and every integer n, addDays(d, n) is d
\* moved by exactly n days, addDays(addDays(d, n), -n) is d again, and the
\* Date passed in is not modified.
C9_AddDaysRoundTrip ==
    /\ (trip.stage \in {"out", "back"} /\ trip.d0.valid) =>
          /\ ~trip.raisedOut
          /\ trip.mid = Moved(trip.d0, trip.n)
          /\ trip.arg = trip.d0
    /\ (trip.stage = "back" /\ trip.d0.valid) =>
          /\ ~trip.raisedBack
          /\ trip.back = trip.d0

\* C9 amended: the same, for every valid d and integer n such that d moved by
\* n days is still within the range of a Date (8.64e15 ms on each side of the
\* epoch); outside it addDays(d, n) is an Invalid Date, and addDays of that
\* throws.  The Date passed in is never modified.
C9_AddDaysRoundTripInRange ==
    /\ (trip.stage \in {"out", "back"} /\ trip.d0.valid) =>
          /\ ~trip.raisedOut
          /\ trip.arg = trip.d0
          /\ IF InRange(Moved(trip.d0, trip.n))
             THEN trip.mid = Moved(trip.d0, trip.n)
             ELSE trip.mid = InvalidDate
    /\ (trip.stage = "back" /\ trip.d0.valid) =>
          IF InRange(Moved(trip.d0, trip.n))
          THEN ~trip.raisedBack /\ trip.back = trip.d0
          ELSE trip.raisedBack

\* C9 witness: 1972-02-29 23:59:59 went 366 days on, to 1973-03-01, and came
\* back
C9_Witness ==
    /\ trip.stage = "back"
    /\ trip.d0 = MakeDate(789, SecPerDay - 1)
    /\ trip.n = 366
    /\ trip.mid = MakeDate(1155, SecPerDay - 1)
    /\ trip.back = trip.d0


(***************************************************************************)
(* Relative time: one call of date.relative (date.ts) or of                *)
(* date.format(input, 'relative') (index.ts), at a clock that may have     *)
(* moved.                                                                  *)
(***************************************************************************)

\* differences at, just under and just over every threshold, and at the
\* halves between two units (in seconds)
RelDiffs ==
    { 0, 1, 29, 30, 31, 59, 60, 61, 89, 90, 91, 149, 150, 151,
      3599, 3600, 3601, 5400, 86399, 86400, 86401, 129600,
      604799, 604800, 604801, 2591999, 2592000, 2592001,
      31535999, 31536000, 31536001, 47304000 }

RelClocks == {0, 30}

RelTargets ==
    { VNum(c + x) : c \in RelClocks, x \in RelDiffs }
        \cup { VNum(c - x) : c \in RelClocks, x \in RelDiffs }

RelOpts ==
    { <<>>,
      <<Prop("now", VNum(0))>>,
      <<Prop("now", VNum(30))>>,
      <<Prop("now", VDate(MakeDate(0, 30)))>> }

RelInit == KeyIdle /\ Loaded /\ clock = 0

RelNext ==
    \/ last.op = "none" /\ TsRelative(RelTargets, RelOpts)
    \/ last.op = "none" /\ IdxFormat(RelTargets, {"relative"}, {<<>>})
    \/ Tick(RelClocks)

SpecRel == RelInit /\ [][RelNext]_vars

\* the thresholds of the two variants, in seconds
IdxThresholds ==
    { [unit |-> "minute", size |-> 60], [unit |-> "hour", size |-> 3600],
      [unit |-> "day", size |-> 86400], [unit |-> "week", size |-> 604800] }

TsThresholds ==
    IdxThresholds \cup { [unit |-> "month", size |-> 2592000],
                         [unit |-> "year", size |-> 31536000] }

\* the unit of the largest threshold absDiff meets or exceeds; the smallest
\* unit when it meets none
Selected(ths, smallest, absDiff) ==
    LET met == {t \in ths : absDiff >= t.size}
    IN  IF met = {} THEN smallest
        ELSE (CHOOSE t \in met : \A u \in met : u.size <= t.size).unit

SizeOf(unit) ==
    IF unit = "second" THEN 1
    ELSE (CHOOSE t \in TsThresholds : t.unit = unit).size

IsRelative == last.route = "relative" /\ ~last.raised

\* C5: the unit handed to the relative formatter is the one with the largest
\* threshold |diff| meets or exceeds (a difference equal to a threshold
\* selects that threshold's unit), and the variant's smallest unit (second in
\* date.ts, minute in index.ts) below every threshold.
C5_UnitSelection ==
    /\ (IsRelative /\ last.op = "tsRelative") =>
          last.unit = Selected(TsThresholds, "second", Abs(last.diff))
    /\ (IsRelative /\ last.op = "idxFormat") =>
          last.unit = Selected(IdxThresholds, "minute", Abs(last.diff))

\* C5 witness: a difference of exactly 30 days in the past selected month
C5_Witness ==
    /\ IsRelative
    /\ last.op = "tsRelative"
    /\ last.diff = -2592000
    /\ last.unit = "month"

\* m is n / d rounded to the nearest integer, a tie going away from zero
NearestTiesAway(n, d, m) ==
    LET r == n - m * d
    IN  IF n >= 0 THEN -d <= 2 * r /\ 2 * r < d
        ELSE -d < 2 * r /\ 2 * r <= d

\* m is n / d rounded to the nearest integer, a tie going toward +Infinity
NearestTiesUp(n, d, m) ==
    LET r == n - m * d
    IN  -d <= 2 * r /\ 2 * r < d

\* m is n / d with its fraction dropped
Truncated(n, d, m) ==
    LET r == n - m * d
    IN  IF n >= 0 THEN 0 <= r /\ r < d ELSE -d < r /\ r <= 0

\* C6 as stated: the magnitude is diff / unit_ms rounded to the nearest
\* integer, halves away from zero, for past and future alike (+90 s in
\* minutes gives 2).
C6_RoundHalfAwayFromZero ==
    IsRelative => NearestTiesAway(last.diff, SizeOf(last.unit), last.value)

\* C6 amended: index.ts rounds diff / unit_ms to the nearest integer with
\* halves toward +Infinity (Math.round: +90 s gives 2 minutes, -90 s gives
\* -1), and date.ts drops the fraction (+90 s gives 1 minute, -90 s gives -1).
C6_RoundingAsCoded ==
    /\ (IsRelative /\ last.op = "idxFormat") =>
          NearestTiesUp(last.diff, SizeOf(last.unit), last.value)
    /\ (IsRelative /\ last.op = "tsRelative") =>
          Truncated(last.diff, SizeOf(last.unit), last.value)

\* C6 witness: index.ts gave -1 minute for 90 s in the past
C6_Witness ==
    /\ IsRelative
    /\ last.op = "idxFormat"
    /\ last.diff = -90
    /\ last.unit = "minute"
    /\ last.value = -1

\* whether the call was given a `now`
NowSupplied(opts) == Get(opts, "now") # Undef

\* C10: whenever a valid `now` is supplied to date.relative the difference
\* is target - now for that instant, and the host clock is used only when no
\* `now` is supplied.
C10_NowOverrideHonoured ==
    (IsRelative /\ last.op = "tsRelative") =>
        last.diff = getTime(toDate(last.input))
                      - ( IF NowSupplied(last.opts)
                          THEN getTime(toDate(Get(last.opts, "now")))
                          ELSE last.clock )


(***************************************************************************)
(* The two modules in use: any sequence of calls and cache clears.         *)
(***************************************************************************)

CacheInputs == {VNum(90), VStr("not-a-date")}

IntlOpts == {<<>>, <<Prop("locale", VStr("is-IS"))>>}

CacheRelOpts ==
    { <<>>,
      <<Prop("now", VNum(30))>>,
      <<Prop("now", VNaN)>>,
      <<Prop("now", VDate(InvalidDate))>> }

CacheModes == {"relative", "date", "time", "bogus-mode", "MM/DD"}

\* the options of the calls of index.ts
IdxOpts == {<<>>}

CacheInit == KeyIdle /\ Loaded /\ clock = 0

CacheNext ==
    \/ TsFormat(CacheInputs, {"YYYY-MM-DD"})
    \/ TsFormatIntl(CacheInputs, IntlOpts)
    \/ TsRelative(CacheInputs, CacheRelOpts)
    \/ TsClearCaches
    \/ IdxFormat(CacheInputs, CacheModes, IdxOpts)
    \/ IdxAddDays(CacheInputs, {1})

SpecCache == CacheInit /\ [][CacheNext]_vars

CacheNames == {"tsDtf", "tsRtf", "idxDtf", "idxRtf"}

CacheOf(name) ==
    CASE name = "tsDtf" -> tsDtfCache
      [] name = "tsRtf" -> tsRtfCache
      [] name = "idxDtf" -> idxDtfCache
      [] OTHER -> idxRtfCache

\* C1: in each cache, since the last clear, the formatter of a key was
\* constructed at most once, the cache still holds the one constructed
\* first, and a call with that key returns it.
C1_BuiltAtMostOnce ==
    /\ \A k \in DOMAIN built :
          /\ built[k].n <= 1
          /\ k[2] \in DOMAIN CacheOf(k[1])
          /\ CacheOf(k[1])[k[2]].id = built[k].first
    /\ \A c \in CacheNames : \A key \in DOMAIN CacheOf(c) :
          <<c, key>> \in DOMAIN built
    /\ last.cache # "none" =>
          /\ <<last.cache, last.key>> \in DOMAIN built
          /\ last.inst = built[<<last.cache, last.key>>].first

\* C1 witness: a call found its formatter in date.ts's _dtfCache, which
\* holds both keys
C1_Witness ==
    /\ last.cache = "tsDtf"
    /\ ~last.fresh
    /\ Cardinality(DOMAIN tsDtfCache) = 2
    /\ last.inst = tsDtfCache[last.key].id

Calls == {"tsFormat", "tsFormatIntl", "tsRelative", "idxFormat", "addDays"}

\* the last call was given an input, or a `now`, that denotes no valid
\* instant
BadCall ==
    /\ last.op \in Calls
    /\ \/ Invalid(toDate(last.input))
       \/ /\ last.op = "tsRelative"
          /\ NowSupplied(last.opts)
          /\ Invalid(toDate(Get(last.opts, "now")))

\* C7: a call whose input, or whose `now`, denotes no valid instant throws,
\* and both caches of its module hold what they held before it.
C7_InvalidInputLeavesCaches ==
    [][BadCall' => (last'.raised /\ UNCHANGED cacheVars)]_vars

RecognizedTokens == {"YYYY", "MM", "DD", "HH", "mm", "ss"}

HasToken(s) ==
    \E i \in 1..Len(s) : \E tok \in RecognizedTokens : MatchesAt(s, i, tok)

\* date.format(input, 'date', opts) of index.ts, called in this state
AsDate(input, opts) ==
    idxFormat(idxDtfCache, idxRtfCache, made, clock, input, "date", opts)

\* C8: a mode that is not 'relative', not a preset name and holds no token
\* does not throw and gives what mode 'date' gives, from the same cache
\* entry; a mode that holds a token goes to the token formatter.
C8_PermissiveFallback ==
    ( /\ last.op = "idxFormat"
      /\ ~Invalid(toDate(last.input))
      /\ last.mode \notin {"relative", "date", "time", "datetime"} ) =>
        IF HasToken(last.mode)
        THEN /\ last.route = "tokens"
             /\ last.cache = "none"
             /\ last.out.kind = "text"
        ELSE /\ ~last.raised
             /\ last.cache = "idxDtf"
             /\ last.key = AsDate(last.input, last.opts).key
             /\ last.inst = AsDate(last.input, last.opts).inst.id
             /\ last.out = AsDate(last.input, last.opts).out

\* C8 witness: 'bogus-mode' was served by the formatter 'date' had cached
C8_Witness ==
    /\ last.op = "idxFormat"
    /\ last.mode = "bogus-mode"
    /\ last.route = "fallback"
    /\ ~last.fresh
    /\ last.out.kind = "dtf"
    /\ last.key = presetKey("date", last.opts)


====
